---------------------------- MODULE Spec2Model ----------------------------
(***************************************************************************)
(* The transcription job pipeline of orendrasingh/video-transcription:     *)
(*   - app.py: POST /api/transcribe (transcribe), the background-thread    *)
(*     runner process_transcription, DELETE /api/history/<id>;             *)
(*   - tasks.py: the Celery task process_transcription and                 *)
(*     TranscriptionTask.update_progress;                                  *)
(*   - transcription_service.py: extract_audio, transcribe, the Gemini and *)
(*     OpenAI adapters, the chunked OpenAI path;                           *)
(*   - encryption_service.py: decrypt.                                     *)
(* Texts and paths are strings, built the way the code builds them.        *)
(* External collaborators (ffmpeg, ffprobe, the providers, the database,   *)
(* socket.io, the filesystem) succeed or fail nondeterministically; every  *)
(* failure taken is logged in faults.                                      *)
(***************************************************************************)
EXTENDS Integers, Sequences, FiniteSets, TLC

\* ------------------------------------------------------------------ bounds
\* Job ids the state is kept for, and those the specification Spec uploads.
Jobs == {"j1", "j2"}
SpecJobs == {"j1"}
\* How many collaborator failures one run may meet.
MaxFaults == 2
\* How many times the broker may deliver the Celery task of one job.
MaxDeliveries == 2
\* How many collaborator failures one run meets when two jobs are in flight, and
\* the audio durations extracted then (one below and one above the size limit).
PairFaults == 1
PairDeliveries == 1
PairDurations == {900, 1200}
\* The values a provider may hand the progress callback are the fractions
\* n / FractionDen, n in 0..FractionDen; how many times it may call it.
FractionDen == 100
MaxCallbacks == 2
\* Audio durations (seconds) an extraction may produce.
Durations == {300, 600, 900, 1092, 1093, 1200, 1500, 1800}

\* ------------------------------------------------------- program constants
\* transcription_service.py:154  chunk_duration = 600
chunk_duration == 600
\* transcription_service.py:95   25 * 1024 * 1024
OPENAI_SIZE_LIMIT == 26214400
\* transcription_service.py:25   '-b:a', '192k'  (192000 bits = 24000 bytes a second)
AUDIO_BYTES_PER_SECOND == 24000

None == "<None>"
Providers == {"gemini", "openai"}
Modes == {"thread", "celery"}
KeyKinds == {"valid", "corrupt", "empty"}
\* The provider names a request may carry: the two the application knows and
\* one it does not.
RequestProviders == Providers \cup {"azure"}

VARIABLES
    \* table transcriptions (models.py:47-58), one row per job id
    exists, status, transcription_text, completed_at,
    \* the filesystem (paths that exist) and the provider's remote files
    files, remote,
    \* table api_keys of the user (models.py): the providers with a stored key
    api_keys,
    \* the arguments the runner of a job was started with
    transcription_id, mode, provider, enc_key,
    \* the numerator of the fraction the progress callback is called with next
    cb_progress,
    \* the runner: position and locals
    pc, audio_path, err, duration, num_chunks, i, transcriptions, raw_transcript, result,
    \* history: what happened in the run
    raised, faults, deliveries, extracted, calls,
    \* log: the status_update events published for a job (those of the current
    \* run and the last one before it), and the writes of a terminal status that
    \* were committed for it
    published, finishes

dbVars == <<exists, status, transcription_text, completed_at>>
fsVars == <<files, remote>>
argVars == <<transcription_id, mode, provider, enc_key>>
locVars == <<audio_path, err, duration, num_chunks, i, transcriptions, raw_transcript,
            result>>
histVars == <<raised, faults, deliveries, extracted, calls>>
logVars == <<published, finishes>>
keyVars == <<api_keys>>
cbVars == <<cb_progress>>
vars == <<dbVars, fsVars, keyVars, argVars, cbVars, pc, locVars, histVars, logVars>>

\* ------------------------------------------------------------------- paths
\* app.py:371-372  filename = f"{transcription_id}_{video.filename}" under UPLOAD_FOLDER
VideoPath(j) == "uploads/" \o j \o "_video.mp4"
\* mutant of AudioPathOf: one audio path for every job
AudioPathShared(j) == "uploads/" \o "audio.mp3"
\* transcription_service.py:14  video_path.rsplit('.', 1)[0] + '_audio.mp3'
AudioPathOf(j) == "uploads/" \o j \o "_video" \o "_audio.mp3"
\* transcription_service.py:169  tempfile.mkdtemp(): a fresh directory of the system
\* temporary directory (the run's own; named here after the job that made it)
TempDir(j) == "tmp/tmp_" \o j
\* transcription_service.py:175  os.path.join(temp_dir, f'chunk_{i}.mp3')
ChunkPath(j, n) == TempDir(j) \o "/chunk_" \o ToString(n) \o ".mp3"
ChunkFiles(j) == {ChunkPath(j, n) : n \in 0..num_chunks[j]} \cap files

\* ------------------------------------------------------------------- faults
CanFault(j) == Cardinality(faults[j]) < MaxFaults
Fault(j, kind) == [faults EXCEPT ![j] = @ \cup {kind \o "@" \o pc[j]}]

Init ==
    /\ exists = [j \in Jobs |-> FALSE]
    /\ status = [j \in Jobs |-> None]
    /\ transcription_text = [j \in Jobs |-> None]
    /\ completed_at = [j \in Jobs |-> FALSE]
    /\ files = {}
    /\ remote = [j \in Jobs |-> FALSE]
    /\ api_keys = {}
    /\ transcription_id = [j \in Jobs |-> None]
    /\ mode = [j \in Jobs |-> None]
    /\ provider = [j \in Jobs |-> None]
    /\ enc_key = [j \in Jobs |-> None]
    /\ pc = [j \in Jobs |-> "new"]
    /\ audio_path = [j \in Jobs |-> None]
    /\ err = [j \in Jobs |-> None]
    /\ duration = [j \in Jobs |-> 0]
    /\ num_chunks = [j \in Jobs |-> 0]
    /\ i = [j \in Jobs |-> 0]
    /\ transcriptions = [j \in Jobs |-> <<>>]
    /\ raw_transcript = [j \in Jobs |-> None]
    /\ result = [j \in Jobs |-> None]
    /\ raised = [j \in Jobs |-> FALSE]
    /\ faults = [j \in Jobs |-> {}]
    /\ deliveries = [j \in Jobs |-> 0]
    /\ extracted = [j \in Jobs |-> <<>>]
    /\ calls = [j \in Jobs |-> <<>>]
    /\ cb_progress = [j \in Jobs |-> 0]
    /\ published = [j \in Jobs |-> <<>>]
    /\ finishes = [j \in Jobs |-> <<>>]

\* app.py:308-309  provider not in ['gemini', 'openai'] is answered 400
\* mutant of ValidProvider: every provider name is accepted
ValidProviderAny(p) == TRUE

ValidProvider(p) == p \in Providers

\* app.py:300-326  POST /api/keys: the key of a valid provider is stored
\* (encrypted), replacing the one there was; anything else is answered 400.
SaveKey(p) ==
    /\ ValidProvider(p)
    /\ api_keys' = api_keys \cup {p}
    /\ UNCHANGED <<dbVars, fsVars, argVars, cbVars, pc, locVars, histVars, logVars>>

\* app.py:328-340  DELETE /api/keys?provider=p: the key, if there is one, is
\* deleted; 404 otherwise.
DeleteKey(p) ==
    /\ p \in api_keys
    /\ api_keys' = api_keys \ {p}
    /\ UNCHANGED <<dbVars, fsVars, argVars, cbVars, pc, locVars, histVars, logVars>>

\* app.py:358-362  the user's key for the provider of the request is looked up;
\* without one the upload is answered 400 and nothing else happens
KeyFound(p) == p \in api_keys

\* app.py:342-397  transcribe: the key is looked up and decrypted, the upload is
\* saved, the row is created with status 'processing', and the runner is
\* started: a background thread (app.py:387-392), or the Celery task
\* tasks.py:68-69 handed (transcription_id, video_path, provider, encrypted_key).
Upload(j, p, m, k) ==
    /\ UNCHANGED logVars
    /\ UNCHANGED <<keyVars, cbVars>>
    /\ pc[j] = "new"
    /\ KeyFound(p)
    /\ m = "thread" => k = "valid"
    /\ files' = files \cup {VideoPath(j)}
    /\ exists' = [exists EXCEPT ![j] = TRUE]
    /\ status' = [status EXCEPT ![j] = "processing"]
    /\ transcription_id' = [transcription_id EXCEPT ![j] = j]
    /\ mode' = [mode EXCEPT ![j] = m]
    /\ provider' = [provider EXCEPT ![j] = p]
    /\ enc_key' = [enc_key EXCEPT ![j] = k]
    /\ pc' = [pc EXCEPT ![j] = IF m = "thread" THEN "t_emit1" ELSE "queued"]
    /\ UNCHANGED <<transcription_text, completed_at, remote, locVars, histVars>>

\* ------------------------------------------------------------ error texts
\* str() of cryptography.fernet.InvalidToken, raised with no arguments
\* (encryption_service.py:27)
InvalidTokenText == ""
\* transcription_service.py:31
ExtractErrorText == "Failed to extract audio: " \o "ffmpeg stderr"
\* tasks.py:109,119 call service.transcribe_with_progress; the class
\* TranscriptionService (transcription_service.py:8-202) defines no such method
NoMethodText == "'TranscriptionService' object has no attribute 'transcribe_with_progress'"
\* mutant of ErrorText: the error's description stored without the prefix
ErrorTextBare(msg) == msg

\* tasks.py:156, app.py:444  f"Error: {error_msg}"
ErrorText(msg) == "Error: " \o msg

\* --------------------------------------------------- tasks.py: the Celery task
\* tasks.py:43-66  TranscriptionTask.update_progress: the row, if there is one,
\* gets the status and is committed; the emit that follows is guarded, and any
\* exception (a failed commit) is swallowed. Only the status column is written.
update_progress(j, st, dbok) ==
    IF exists[j] /\ dbok THEN [status EXCEPT ![j] = st] ELSE status

\* tasks.py:52-64  the socket emit of update_progress: reached when the row was
\* found and committed; when it raises the event is lost and nothing else happens.
\* app.py:404-408, 413-417, 429-434, 448-452  socketio.emit('status_update', ...)
publish(j, event, ok) ==
    IF ok THEN [published EXCEPT ![j] = Append(@, event)] ELSE published

\* tasks.py:56-61  {'id', 'status', 'progress', 'message'}
ProgressEvent(st, progress) == [status |-> st, progress |-> progress]

\* One update_progress(transcription_id, 'processing', progress, ...) call as a
\* step of the task.
ProgressStep(j, from, progress, to) ==
    /\ UNCHANGED keyVars
    /\ pc[j] = from
    /\ \E dbok \in BOOLEAN, emitok \in BOOLEAN :
        /\ ~(dbok /\ emitok) => CanFault(j)
        /\ ~emitok => (dbok /\ exists[transcription_id[j]])
        /\ status' = update_progress(transcription_id[j], "processing", dbok)
        /\ published' = publish(transcription_id[j], ProgressEvent("processing", progress),
                                exists[transcription_id[j]] /\ dbok /\ emitok)
        /\ faults' = IF ~dbok THEN Fault(j, "db")
                     ELSE IF ~emitok THEN Fault(j, "emit") ELSE faults
    /\ pc' = [pc EXCEPT ![j] = to]
    /\ UNCHANGED <<exists, transcription_text, completed_at, fsVars, argVars, locVars,
                   raised, deliveries, extracted, calls, finishes>>

\* The broker delivers the task: tasks.py:79  audio_path = None
\* (the log of published events starts again for the run, from the last event
\* published before it)
Deliver(j) ==
    /\ UNCHANGED <<keyVars, cbVars>>
    /\ mode[j] = "celery"
    /\ published' = [published EXCEPT ![transcription_id[j]] =
                         IF @ = <<>> THEN @ ELSE <<@[Len(@)]>>]
    /\ UNCHANGED finishes
    /\ pc[j] \in {"queued", "done"}
    /\ deliveries[j] < MaxDeliveries
    /\ deliveries' = [deliveries EXCEPT ![j] = @ + 1]
    /\ audio_path' = [audio_path EXCEPT ![j] = None]
    /\ err' = [err EXCEPT ![j] = None]
    /\ raised' = [raised EXCEPT ![j] = FALSE]
    /\ pc' = [pc EXCEPT ![j] = "c_start"]
    /\ faults' = [faults EXCEPT ![j] = {}]
    /\ UNCHANGED <<dbVars, fsVars, argVars, duration, num_chunks, i, transcriptions,
                   raw_transcript, result, extracted, calls>>

\* tasks.py:84
CeleryStart(j) == ProgressStep(j, "c_start", 10, "c_decrypt") /\ UNCHANGED cbVars

\* encryption_service.py:23-28  decrypt: a falsy token is returned as it is,
\* a token that does not verify raises InvalidToken
decrypt(k) == IF k = "empty" THEN "" ELSE IF k = "valid" THEN "api-key" ELSE None

\* tasks.py:87-91
CeleryDecrypt(j) ==
    /\ UNCHANGED logVars
    /\ UNCHANGED <<keyVars, cbVars>>
    /\ pc[j] = "c_decrypt"
    /\ IF decrypt(enc_key[j]) = None
         THEN /\ err' = [err EXCEPT ![j] = InvalidTokenText]
              /\ faults' = Fault(j, "decrypt")
              /\ pc' = [pc EXCEPT ![j] = "c_handler"]
         ELSE /\ pc' = [pc EXCEPT ![j] = "c_up20"]
              /\ UNCHANGED <<err, faults>>
    /\ UNCHANGED <<dbVars, fsVars, argVars, audio_path, duration, num_chunks, i,
                   transcriptions, raw_transcript, result, raised, deliveries, extracted, calls>>

\* tasks.py:94
CeleryProgress20(j) == ProgressStep(j, "c_up20", 20, "c_extract") /\ UNCHANGED cbVars

\* transcription_service.py:11-31  extract_audio: ffmpeg writes audio_path; when it
\* fails the exception is raised and whatever ffmpeg wrote of audio_path stays
\* (partial TRUE) or not. It cannot succeed without its input.
ExtractOutcomes(j) ==
    {[ok |-> TRUE, partial |-> FALSE] : x \in {1} \cap (IF VideoPath(j) \in files THEN {1} ELSE {})}
    \cup {[ok |-> FALSE, partial |-> b] : b \in {FALSE} \cup (IF VideoPath(j) \in files THEN {TRUE} ELSE {})}

\* The files after an extraction with outcome o.
AfterExtract(j, o) ==
    IF o.ok \/ o.partial THEN files \cup {AudioPathOf(j)} ELSE files

\* tasks.py:95  audio_path = service.extract_audio(video_path)
CeleryExtract(j) ==
    /\ UNCHANGED logVars
    /\ UNCHANGED <<keyVars, cbVars>>
    /\ pc[j] = "c_extract"
    /\ \E o \in ExtractOutcomes(transcription_id[j]) :
        /\ files' = AfterExtract(transcription_id[j], o)
        /\ IF o.ok
             THEN /\ audio_path' = [audio_path EXCEPT ![j] = AudioPathOf(transcription_id[j])]
                  /\ pc' = [pc EXCEPT ![j] = "c_up30"]
                  /\ UNCHANGED <<err, faults>>
             ELSE /\ err' = [err EXCEPT ![j] = ExtractErrorText]
                  /\ faults' = Fault(j, "extract")
                  /\ pc' = [pc EXCEPT ![j] = "c_handler"]
                  /\ UNCHANGED audio_path
    /\ UNCHANGED <<dbVars, remote, argVars, duration, num_chunks, i, transcriptions,
                   raw_transcript, result, raised, deliveries, extracted, calls>>

\* tasks.py:98-104
CeleryProgress30(j) == ProgressStep(j, "c_up30", 30, "c_up40") /\ UNCHANGED cbVars

\* tasks.py:107-108, 117-118
CeleryProgress40(j) == ProgressStep(j, "c_up40", 40, "c_transcribe") /\ UNCHANGED cbVars

\* tasks.py:113-115, 123-125  the progress callback handed to the service:
\* lambda progress, msg: self.update_progress(transcription_id, 'processing',
\*                                             40 + int(progress * 0.5), msg)
\* for progress = n / den (int() of a non-negative number is its floor)
callback_progress(n, den) == 40 + (n \div (2 * den))

\* One call of the callback by the service, with the fraction that is next; any
\* fraction may follow.
ProgressCallback(j) ==
    /\ Len(published[j]) <= MaxCallbacks
    /\ ProgressStep(j, "c_callback", callback_progress(cb_progress[j], FractionDen),
                    "c_callback")
    /\ \E n \in 0..FractionDen : cb_progress' = [cb_progress EXCEPT ![j] = n]

\* tasks.py:109-126  service.transcribe_with_progress(...): the attribute lookup
\* raises AttributeError for either provider, before any provider is called.
\* tasks.py:128-144 (the save of the result) is never reached.
CeleryTranscribe(j) ==
    /\ UNCHANGED logVars
    /\ UNCHANGED <<keyVars, cbVars>>
    /\ pc[j] = "c_transcribe"
    /\ err' = [err EXCEPT ![j] = NoMethodText]
    /\ pc' = [pc EXCEPT ![j] = "c_handler"]
    /\ UNCHANGED <<dbVars, fsVars, argVars, audio_path, duration, num_chunks, i,
                   transcriptions, raw_transcript, result, histVars>>

\* A committed write of a terminal status, as the log keeps it.
Finish(st, text) == [status |-> st, text |-> text]

\* tasks.py:146-167  except Exception: the row, if there is one, gets status
\* 'failed' and the error text, then update_progress(..., 'failed', 0, ...)
\* (its own commit, upok, and its guarded emit); a failed commit at 157 is
\* caught by the inner try and skips update_progress. completed_at is not
\* written.
CeleryHandler(j) ==
    /\ UNCHANGED <<keyVars, cbVars>>
    /\ pc[j] = "c_handler"
    /\ \E dbok \in BOOLEAN, upok \in BOOLEAN, emitok \in BOOLEAN :
        /\ ~(dbok /\ upok /\ emitok) => CanFault(j)
        /\ ~upok => (dbok /\ exists[transcription_id[j]])
        /\ ~emitok => (dbok /\ upok /\ exists[transcription_id[j]])
        /\ IF exists[transcription_id[j]] /\ dbok
             THEN /\ status' = [status EXCEPT ![transcription_id[j]] = "failed"]
                  /\ transcription_text' = [transcription_text EXCEPT
                                               ![transcription_id[j]] = ErrorText(err[j])]
                  /\ finishes' = [finishes EXCEPT ![transcription_id[j]] =
                                     Append(@, Finish("failed", ErrorText(err[j])))]
             ELSE UNCHANGED <<status, transcription_text, finishes>>
        /\ published' = publish(transcription_id[j], ProgressEvent("failed", 0),
                                exists[transcription_id[j]] /\ dbok /\ upok /\ emitok)
        /\ faults' = IF ~dbok \/ ~upok THEN Fault(j, "db")
                     ELSE IF ~emitok THEN Fault(j, "emit") ELSE faults
    /\ pc' = [pc EXCEPT ![j] = "c_cleanup"]
    /\ UNCHANGED <<exists, completed_at, fsVars, argVars, locVars, raised, deliveries,
                   extracted, calls>>

\* tasks.py:169-177  finally: the audio file, if audio_path was assigned and the
\* file exists, then the video file, are removed; an os.remove that raises ends
\* the cleanup (the exception is printed).
CleanupFiles(j, rmAudioOk, rmVideoOk) ==
    LET hasAudio == audio_path[j] # None /\ audio_path[j] \in files
        afterAudio == IF hasAudio /\ rmAudioOk THEN files \ {audio_path[j]} ELSE files
    IN  IF hasAudio /\ ~rmAudioOk THEN files
        ELSE IF rmVideoOk THEN afterAudio \ {VideoPath(transcription_id[j])} ELSE afterAudio

CeleryCleanup(j) ==
    /\ UNCHANGED logVars
    /\ UNCHANGED <<keyVars, cbVars>>
    /\ pc[j] = "c_cleanup"
    /\ \E rmAudioOk \in BOOLEAN, rmVideoOk \in BOOLEAN :
        /\ ~(rmAudioOk /\ rmVideoOk) => CanFault(j)
        /\ ~rmAudioOk => (audio_path[j] # None /\ audio_path[j] \in files /\ rmVideoOk)
        /\ ~rmVideoOk => VideoPath(transcription_id[j]) \in files
        /\ files' = CleanupFiles(j, rmAudioOk, rmVideoOk)
        /\ faults' = IF rmAudioOk /\ rmVideoOk THEN faults ELSE Fault(j, "remove")
    /\ pc' = [pc EXCEPT ![j] = "done"]
    /\ UNCHANGED <<dbVars, remote, argVars, locVars, raised, deliveries, extracted, calls>>

\* ------------------------------------- transcription_service.py: the adapters
\* str() of the exception a collaborator raised
EmitErrorText == "socket emit failed"
DbErrorText == "database commit failed"
RemoveErrorText == "[Errno 13] Permission denied"
ProviderErrorText == "provider call failed"
ProbeErrorText == "could not convert string to float: ''"
ChunkExtractErrorText == "Command ffmpeg returned non-zero exit status 1."
RmdirErrorText(j) == "[Errno 39] Directory not empty: '" \o TempDir(j) \o "'"
NoRowText == "'NoneType' object has no attribute 'status'"
\* transcription_service.py:40  ValueError(f"Unknown provider: {provider}")
UnknownProviderText(p) == "Unknown provider: " \o p
\* transcription_service.py:86
GeminiErrorText(msg) == "Gemini transcription failed: " \o msg
\* transcription_service.py:109
OpenAIErrorText(msg) == "OpenAI transcription failed: " \o msg

\* What the provider hears in a file: the whole audio, or chunk n of it.
WholeTranscript == "whole"
ChunkTranscript(n) == "part" \o ToString(n)
\* transcription_service.py:146  the content of the GPT response: another text
Enhanced(raw) == "enhanced[" \o raw \o "]"

\* transcription_service.py:198  ' '.join(transcriptions)
\* mutant of JoinSpace: the texts joined with nothing between them
JoinNoSeparator(ts) ==
    IF ts = <<>> THEN ""
    ELSE IF Len(ts) = 1 THEN ts[1]
    ELSE ts[1] \o ts[2] \o (IF Len(ts) > 2 THEN ts[3] ELSE "") \o (IF Len(ts) > 3 THEN ts[4] ELSE "")

RECURSIVE JoinSpace(_)
JoinSpace(ts) ==
    IF ts = <<>> THEN ""
    ELSE IF Len(ts) = 1 THEN ts[1]
    ELSE ts[1] \o " " \o JoinSpace(Tail(ts))

\* os.path.getsize of the audio extract_audio wrote: constant bitrate
\* (transcription_service.py:18-27)
AudioSize(d) == d * AUDIO_BYTES_PER_SECOND

\* mutant of NeedsChunking: the split decided by the duration
NeedsChunkingByDuration(d) == d > chunk_duration

\* transcription_service.py:95  file_size > 25 * 1024 * 1024
NeedsChunking(d) == AudioSize(d) > OPENAI_SIZE_LIMIT

\* transcription_service.py:171  int(duration / chunk_duration) + 1
NumChunks(d) == (d \div chunk_duration) + 1

\* mutant of ChunkRequest: the chunks counted from 1
ChunkRequestFromOne(n) == [start |-> (n + 1) * chunk_duration, t |-> chunk_duration]

\* transcription_service.py:174, 181-182  '-ss', str(start_time), '-t', str(chunk_duration)
ChunkRequest(n) == [start |-> n * chunk_duration, t |-> chunk_duration]

\* A step of the service raises msg to the thread runner (app.py:440).
RaiseToThread(j, kind, msg) ==
    /\ err' = [err EXCEPT ![j] = msg]
    /\ faults' = Fault(j, kind)
    /\ pc' = [pc EXCEPT ![j] = "t_handler"]

\* transcription_service.py:33-40  transcribe: dispatch on the provider
Transcribe(j) ==
    /\ UNCHANGED logVars
    /\ UNCHANGED <<keyVars, cbVars>>
    /\ pc[j] = "t_transcribe"
    /\ IF provider[j] = "gemini"
         THEN pc' = [pc EXCEPT ![j] = "g_upload"] /\ UNCHANGED <<err, faults>>
         ELSE IF provider[j] = "openai"
         THEN pc' = [pc EXCEPT ![j] = "o_size"] /\ UNCHANGED <<err, faults>>
         ELSE RaiseToThread(j, "unknown", UnknownProviderText(provider[j]))
    /\ UNCHANGED <<dbVars, fsVars, argVars, audio_path, duration, num_chunks, i,
                   transcriptions, raw_transcript, result, raised, deliveries,
                   extracted, calls>>

\* transcription_service.py:45-48  genai.upload_file(audio_path)
GeminiUpload(j) ==
    /\ UNCHANGED logVars
    /\ UNCHANGED <<keyVars, cbVars>>
    /\ pc[j] = "g_upload"
    /\ \/ /\ remote' = [remote EXCEPT ![j] = TRUE]
          /\ pc' = [pc EXCEPT ![j] = "g_generate"]
          /\ UNCHANGED <<err, faults>>
       \/ /\ CanFault(j)
          /\ RaiseToThread(j, "provider", GeminiErrorText(ProviderErrorText))
          /\ UNCHANGED remote
    /\ UNCHANGED <<dbVars, files, argVars, audio_path, duration, num_chunks, i,
                   transcriptions, raw_transcript, result, raised, deliveries,
                   extracted, calls>>

\* transcription_service.py:51-79  model.generate_content([prompt, audio_file])
GeminiGenerate(j) ==
    /\ UNCHANGED logVars
    /\ UNCHANGED <<keyVars, cbVars>>
    /\ pc[j] = "g_generate"
    /\ calls' = [calls EXCEPT ![j] = Append(@, audio_path[j])]
    /\ \/ /\ raw_transcript' = [raw_transcript EXCEPT ![j] = WholeTranscript]
          /\ pc' = [pc EXCEPT ![j] = "g_delete"]
          /\ UNCHANGED <<err, faults>>
       \/ /\ CanFault(j)
          /\ RaiseToThread(j, "provider", GeminiErrorText(ProviderErrorText))
          /\ UNCHANGED raw_transcript
    /\ UNCHANGED <<dbVars, fsVars, argVars, audio_path, duration, num_chunks, i,
                   transcriptions, result, raised, deliveries, extracted>>

\* transcription_service.py:82-84  genai.delete_file, return response.text
GeminiDelete(j) ==
    /\ UNCHANGED logVars
    /\ UNCHANGED <<keyVars, cbVars>>
    /\ pc[j] = "g_delete"
    /\ \/ /\ remote' = [remote EXCEPT ![j] = FALSE]
          /\ result' = [result EXCEPT ![j] = raw_transcript[j]]
          /\ pc' = [pc EXCEPT ![j] = "t_write"]
          /\ UNCHANGED <<err, faults>>
       \/ /\ CanFault(j)
          /\ RaiseToThread(j, "provider", GeminiErrorText(ProviderErrorText))
          /\ UNCHANGED <<remote, result>>
    /\ UNCHANGED <<dbVars, files, argVars, audio_path, duration, num_chunks, i,
                   transcriptions, raw_transcript, raised, deliveries, extracted, calls>>

\* transcription_service.py:91-98  the size check of _transcribe_openai
OpenAISize(j) ==
    /\ UNCHANGED logVars
    /\ UNCHANGED <<keyVars, cbVars>>
    /\ pc[j] = "o_size"
    /\ pc' = [pc EXCEPT ![j] = IF NeedsChunking(duration[j]) THEN "k_probe" ELSE "o_whisper"]
    /\ UNCHANGED <<dbVars, fsVars, argVars, locVars, histVars>>

\* transcription_service.py:99-104  one Whisper call on the whole file
OpenAIWhisper(j) ==
    /\ UNCHANGED logVars
    /\ UNCHANGED <<keyVars, cbVars>>
    /\ pc[j] = "o_whisper"
    /\ calls' = [calls EXCEPT ![j] = Append(@, audio_path[j])]
    /\ \/ /\ raw_transcript' = [raw_transcript EXCEPT ![j] = WholeTranscript]
          /\ pc' = [pc EXCEPT ![j] = "o_enhance"]
          /\ UNCHANGED <<err, faults>>
       \/ /\ CanFault(j)
          /\ RaiseToThread(j, "provider", OpenAIErrorText(ProviderErrorText))
          /\ UNCHANGED raw_transcript
    /\ UNCHANGED <<dbVars, fsVars, argVars, audio_path, duration, num_chunks, i,
                   transcriptions, result, raised, deliveries, extracted>>

\* mutant of EnhanceResult: a text is returned whether the call failed or not
EnhanceResultAlways(raw, ok) == Enhanced(raw)

\* transcription_service.py:111-150  _enhance_transcript_with_gpt: the response's
\* content, or the raw transcript when the call fails
EnhanceResult(raw, ok) == IF ok THEN Enhanced(raw) ELSE raw

\* transcription_service.py:107
OpenAIEnhance(j) ==
    /\ UNCHANGED logVars
    /\ UNCHANGED <<keyVars, cbVars>>
    /\ pc[j] = "o_enhance"
    /\ \E ok \in BOOLEAN :
        /\ ~ok => CanFault(j)
        /\ result' = [result EXCEPT ![j] = EnhanceResult(raw_transcript[j], ok)]
        /\ faults' = IF ok THEN faults ELSE Fault(j, "enhance")
    /\ pc' = [pc EXCEPT ![j] = "t_write"]
    /\ UNCHANGED <<dbVars, fsVars, argVars, audio_path, err, duration, num_chunks, i,
                   transcriptions, raw_transcript, raised, deliveries, extracted, calls>>

\* ------------------------- transcription_service.py: _transcribe_openai_chunked
\* transcription_service.py:158-166  ffprobe; float() of an empty output raises,
\* before the temporary directory is made
ChunkedProbe(j) ==
    /\ UNCHANGED logVars
    /\ UNCHANGED <<keyVars, cbVars>>
    /\ pc[j] = "k_probe"
    /\ \/ /\ pc' = [pc EXCEPT ![j] = "k_mkdtemp"]
          /\ UNCHANGED <<err, faults>>
       \/ /\ CanFault(j)
          /\ RaiseToThread(j, "probe", OpenAIErrorText(ProbeErrorText))
    /\ UNCHANGED <<dbVars, fsVars, argVars, audio_path, duration, num_chunks, i,
                   transcriptions, raw_transcript, result, raised, deliveries,
                   extracted, calls>>

\* transcription_service.py:155, 169-173  temp_dir = tempfile.mkdtemp(); num_chunks
ChunkedMkdtemp(j) ==
    /\ UNCHANGED logVars
    /\ UNCHANGED <<keyVars, cbVars>>
    /\ pc[j] = "k_mkdtemp"
    /\ files' = files \cup {TempDir(j)}
    /\ num_chunks' = [num_chunks EXCEPT ![j] = NumChunks(duration[j])]
    /\ i' = [i EXCEPT ![j] = 0]
    /\ transcriptions' = [transcriptions EXCEPT ![j] = <<>>]
    /\ pc' = [pc EXCEPT ![j] = "k_extract"]
    /\ UNCHANGED <<dbVars, remote, argVars, audio_path, err, duration, raw_transcript,
                   result, histVars>>

\* transcription_service.py:174-185  ffmpeg cuts chunk i; when it fails the
\* exception leaves the loop and whatever it wrote of the chunk stays or not.
\* (A chunk that starts at the end of the audio is cut like any other: whether
\* ffmpeg and the provider accept it is their choice.)
ChunkedExtract(j) ==
    /\ UNCHANGED logVars
    /\ UNCHANGED <<keyVars, cbVars>>
    /\ pc[j] = "k_extract"
    /\ extracted' = [extracted EXCEPT ![j] = Append(@, ChunkRequest(i[j]))]
    /\ \/ /\ files' = files \cup {ChunkPath(j, i[j])}
          /\ pc' = [pc EXCEPT ![j] = "k_whisper"]
          /\ UNCHANGED <<err, faults>>
       \/ /\ CanFault(j)
          /\ \E partial \in BOOLEAN :
                files' = IF partial THEN files \cup {ChunkPath(j, i[j])} ELSE files
          /\ err' = [err EXCEPT ![j] = ChunkExtractErrorText]
          /\ faults' = Fault(j, "extract")
          /\ pc' = [pc EXCEPT ![j] = "k_rmdir"]
    /\ UNCHANGED <<dbVars, remote, argVars, audio_path, duration, num_chunks, i,
                   transcriptions, raw_transcript, result, raised, deliveries, calls>>

\* transcription_service.py:188-194  one Whisper call on chunk i
ChunkedWhisper(j) ==
    /\ UNCHANGED logVars
    /\ UNCHANGED <<keyVars, cbVars>>
    /\ pc[j] = "k_whisper"
    /\ calls' = [calls EXCEPT ![j] = Append(@, ChunkPath(j, i[j]))]
    /\ \/ /\ transcriptions' = [transcriptions EXCEPT ![j] = Append(@, ChunkTranscript(i[j]))]
          /\ pc' = [pc EXCEPT ![j] = "k_remove"]
          /\ UNCHANGED <<err, faults>>
       \/ /\ CanFault(j)
          /\ err' = [err EXCEPT ![j] = ProviderErrorText]
          /\ faults' = Fault(j, "provider")
          /\ pc' = [pc EXCEPT ![j] = "k_rmdir"]
          /\ UNCHANGED transcriptions
    /\ UNCHANGED <<dbVars, fsVars, argVars, audio_path, duration, num_chunks, i,
                   raw_transcript, result, raised, deliveries, extracted>>

\* transcription_service.py:196, 173  os.remove(chunk_path), then the next i
ChunkedRemove(j) ==
    /\ UNCHANGED logVars
    /\ UNCHANGED <<keyVars, cbVars>>
    /\ pc[j] = "k_remove"
    /\ \/ /\ files' = files \ {ChunkPath(j, i[j])}
          /\ i' = [i EXCEPT ![j] = @ + 1]
          /\ pc' = [pc EXCEPT ![j] = IF i[j] + 1 < num_chunks[j] THEN "k_extract" ELSE "k_return"]
          /\ UNCHANGED <<err, faults>>
       \/ /\ CanFault(j)
          /\ err' = [err EXCEPT ![j] = RemoveErrorText]
          /\ faults' = Fault(j, "remove")
          /\ pc' = [pc EXCEPT ![j] = "k_rmdir"]
          /\ UNCHANGED <<files, i>>
    /\ UNCHANGED <<dbVars, remote, argVars, audio_path, duration, num_chunks,
                   transcriptions, raw_transcript, result, raised, deliveries,
                   extracted, calls>>

\* transcription_service.py:198  return ' '.join(transcriptions)
ChunkedReturn(j) ==
    /\ UNCHANGED logVars
    /\ UNCHANGED <<keyVars, cbVars>>
    /\ pc[j] = "k_return"
    /\ raw_transcript' = [raw_transcript EXCEPT ![j] = JoinSpace(transcriptions[j])]
    /\ pc' = [pc EXCEPT ![j] = "k_rmdir"]
    /\ UNCHANGED <<dbVars, fsVars, argVars, audio_path, err, duration, num_chunks, i,
                   transcriptions, result, histVars>>

\* transcription_service.py:199-202  finally: os.rmdir(temp_dir), which raises
\* OSError on a directory that still holds a chunk file; the exception then in
\* flight (its own, or the loop's) is wrapped by _transcribe_openai (108-109).
ChunkedFinally(j) ==
    /\ UNCHANGED logVars
    /\ UNCHANGED <<keyVars, cbVars>>
    /\ pc[j] = "k_rmdir"
    /\ IF ChunkFiles(j) # {}
         THEN /\ err' = [err EXCEPT ![j] = OpenAIErrorText(RmdirErrorText(j))]
              /\ pc' = [pc EXCEPT ![j] = "t_handler"]
              /\ UNCHANGED <<files, faults>>
         ELSE \/ /\ files' = files \ {TempDir(j)}
                 /\ IF err[j] # None
                      THEN /\ err' = [err EXCEPT ![j] = OpenAIErrorText(err[j])]
                           /\ pc' = [pc EXCEPT ![j] = "t_handler"]
                      ELSE /\ pc' = [pc EXCEPT ![j] = "o_enhance"]
                           /\ UNCHANGED err
                 /\ UNCHANGED faults
              \/ /\ CanFault(j)
                 /\ RaiseToThread(j, "remove", OpenAIErrorText(RemoveErrorText))
                 /\ UNCHANGED files
    /\ UNCHANGED <<dbVars, remote, argVars, audio_path, duration, num_chunks, i,
                   transcriptions, raw_transcript, result, raised, deliveries,
                   extracted, calls>>

\* ------------------------------------------- app.py: the background-thread runner
\* app.py:404-408, 413-417, 429-434  socketio.emit('status_update', ...) inside
\* the try: when it raises, the except clause of the runner takes over
ThreadEmit(j, from, event, to) ==
    /\ UNCHANGED <<keyVars, cbVars>>
    /\ pc[j] = from
    /\ \/ /\ pc' = [pc EXCEPT ![j] = to]
          /\ published' = publish(j, event, TRUE)
          /\ UNCHANGED <<err, faults>>
       \/ /\ CanFault(j)
          /\ RaiseToThread(j, "emit", EmitErrorText)
          /\ UNCHANGED published
    /\ UNCHANGED finishes
    /\ UNCHANGED <<dbVars, fsVars, argVars, audio_path, duration, num_chunks, i,
                   transcriptions, raw_transcript, result, raised, deliveries,
                   extracted, calls>>

\* app.py:404-408, 413-417, 448-452  {'transcription_id', 'status', 'message'}
StatusEvent(st) == [status |-> st]
\* app.py:429-434  {'transcription_id', 'status', 'message', 'text'}
CompletedEvent(text) == [status |-> "completed", text |-> text]

ThreadEmitStart(j) == ThreadEmit(j, "t_emit1", StatusEvent("processing"), "t_extract")

\* app.py:411  audio_path = transcription_service.extract_audio(filepath)
ThreadExtract(j) ==
    /\ UNCHANGED logVars
    /\ UNCHANGED <<keyVars, cbVars>>
    /\ pc[j] = "t_extract"
    /\ \E o \in ExtractOutcomes(j) :
        /\ files' = AfterExtract(j, o)
        /\ IF o.ok
             THEN /\ audio_path' = [audio_path EXCEPT ![j] = AudioPathOf(j)]
                  /\ \E d \in Durations : duration' = [duration EXCEPT ![j] = d]
                  /\ pc' = [pc EXCEPT ![j] = "t_emit2"]
                  /\ UNCHANGED <<err, faults>>
             ELSE /\ RaiseToThread(j, "extract", ExtractErrorText)
                  /\ UNCHANGED <<audio_path, duration>>
    /\ UNCHANGED <<dbVars, remote, argVars, num_chunks, i, transcriptions,
                   raw_transcript, result, raised, deliveries, extracted, calls>>

ThreadEmitTranscribing(j) == ThreadEmit(j, "t_emit2", StatusEvent("processing"), "t_transcribe")

\* app.py:423-427  the row gets 'completed', the result and completed_at; a
\* missing row (db.session.get gives None) or a failed commit raises
ThreadWrite(j) ==
    /\ UNCHANGED <<keyVars, cbVars>>
    /\ pc[j] = "t_write"
    /\ UNCHANGED published
    /\ IF ~exists[j]
         THEN /\ err' = [err EXCEPT ![j] = NoRowText]
              /\ pc' = [pc EXCEPT ![j] = "t_handler"]
              /\ UNCHANGED <<status, transcription_text, completed_at, faults, finishes>>
         ELSE \/ /\ status' = [status EXCEPT ![j] = "completed"]
                 /\ transcription_text' = [transcription_text EXCEPT ![j] = result[j]]
                 /\ completed_at' = [completed_at EXCEPT ![j] = TRUE]
                 /\ finishes' = [finishes EXCEPT ![j] = Append(@, Finish("completed", result[j]))]
                 /\ pc' = [pc EXCEPT ![j] = "t_emit3"]
                 /\ UNCHANGED <<err, faults>>
              \/ /\ CanFault(j)
                 /\ RaiseToThread(j, "db", DbErrorText)
                 /\ UNCHANGED <<status, transcription_text, completed_at, finishes>>
    /\ UNCHANGED <<exists, fsVars, argVars, audio_path, duration, num_chunks, i,
                   transcriptions, raw_transcript, result, raised, deliveries,
                   extracted, calls>>

ThreadEmitCompleted(j) == ThreadEmit(j, "t_emit3", CompletedEvent(result[j]), "t_rm_src")

\* app.py:437-438  os.remove(filepath), os.remove(audio_path), inside the try
ThreadRemove(j, from, path, to) ==
    /\ UNCHANGED logVars
    /\ UNCHANGED <<keyVars, cbVars>>
    /\ pc[j] = from
    /\ \/ /\ path \in files
          /\ files' = files \ {path}
          /\ pc' = [pc EXCEPT ![j] = to]
          /\ UNCHANGED <<err, faults>>
       \/ /\ CanFault(j) \/ path \notin files
          /\ RaiseToThread(j, "remove", RemoveErrorText)
          /\ UNCHANGED files
    /\ UNCHANGED <<dbVars, remote, argVars, audio_path, duration, num_chunks, i,
                   transcriptions, raw_transcript, result, raised, deliveries,
                   extracted, calls>>

ThreadRemoveSource(j) == ThreadRemove(j, "t_rm_src", VideoPath(j), "t_rm_audio")
ThreadRemoveAudio(j) == ThreadRemove(j, "t_rm_audio", audio_path[j], "done")

\* app.py:440-452  except Exception: the row gets 'failed', the error text and
\* completed_at, then the emit; nothing here is guarded, so a missing row, a
\* failed commit or a failed emit raises out of the runner. No file is removed.
ThreadHandler(j) ==
    /\ UNCHANGED <<keyVars, cbVars>>
    /\ pc[j] = "t_handler"
    /\ IF ~exists[j]
         THEN /\ raised' = [raised EXCEPT ![j] = TRUE]
              /\ UNCHANGED <<status, transcription_text, completed_at, faults, logVars>>
         ELSE \/ /\ status' = [status EXCEPT ![j] = "failed"]
                 /\ transcription_text' = [transcription_text EXCEPT ![j] = ErrorText(err[j])]
                 /\ completed_at' = [completed_at EXCEPT ![j] = TRUE]
                 /\ finishes' = [finishes EXCEPT ![j] =
                                    Append(@, Finish("failed", ErrorText(err[j])))]
                 /\ \/ /\ published' = publish(j, StatusEvent("failed"), TRUE)
                       /\ UNCHANGED <<raised, faults>>
                    \/ /\ CanFault(j)
                       /\ raised' = [raised EXCEPT ![j] = TRUE]
                       /\ faults' = Fault(j, "emit")
                       /\ UNCHANGED published
              \/ /\ CanFault(j)
                 /\ raised' = [raised EXCEPT ![j] = TRUE]
                 /\ faults' = Fault(j, "db")
                 /\ UNCHANGED <<status, transcription_text, completed_at, logVars>>
    /\ pc' = [pc EXCEPT ![j] = "done"]
    /\ UNCHANGED <<exists, fsVars, argVars, locVars, deliveries, extracted, calls>>

\* app.py:491-502  DELETE /api/history/<id>: the row is deleted
delete_transcription(j) ==
    /\ UNCHANGED logVars
    /\ UNCHANGED <<keyVars, cbVars>>
    /\ exists[j]
    /\ exists' = [exists EXCEPT ![j] = FALSE]
    /\ status' = [status EXCEPT ![j] = None]
    /\ transcription_text' = [transcription_text EXCEPT ![j] = None]
    /\ completed_at' = [completed_at EXCEPT ![j] = FALSE]
    /\ UNCHANGED <<fsVars, argVars, pc, locVars, histVars>>

\* The process that runs the job dies in the middle of the run: the thread of
\* app.py:387-392 is a daemon thread of the web process, and the Celery worker
\* acknowledged the message when it started the task (tasks.py:26-38 sets no
\* late acknowledgement), so nothing runs the job again.
Running(j) == pc[j] \notin {"new", "queued", "done", "dead", "killed"}
Die(j) ==
    /\ UNCHANGED <<keyVars, cbVars>>
    /\ Running(j)
    /\ pc' = [pc EXCEPT ![j] = "dead"]
    /\ UNCHANGED <<dbVars, fsVars, argVars, locVars, histVars, logVars>>

\* str() of billiard's SoftTimeLimitExceeded, raised with no arguments
SoftTimeLimitText == "SoftTimeLimitExceeded()"
\* The positions of the Celery task inside its try body (tasks.py:82-144), and
\* those of them that are inside update_progress.
CeleryBodyPcs ==
    {"c_start", "c_decrypt", "c_up20", "c_extract", "c_up30", "c_up40", "c_transcribe"}
CeleryProgressPcs == {"c_start", "c_up20", "c_up30", "c_up40"}
SoftFired(j) == \E q \in CeleryBodyPcs : ("soft@" \o q) \in faults[j]

\* tasks.py:37  task_soft_time_limit=3300: the worker raises
\* SoftTimeLimitExceeded in the task, wherever it is. In the try body it
\* reaches the except clause (tasks.py:146); inside update_progress it may be
\* caught by that method's own except Exception (tasks.py:65), and the task
\* goes on.
SoftTimeLimit(j) ==
    /\ UNCHANGED <<keyVars, cbVars>>
    /\ mode[j] = "celery"
    /\ pc[j] \in CeleryBodyPcs
    /\ ~SoftFired(j)
    /\ faults' = Fault(j, "soft")
    /\ \/ /\ err' = [err EXCEPT ![j] = SoftTimeLimitText]
          /\ pc' = [pc EXCEPT ![j] = "c_handler"]
       \/ /\ pc[j] \in CeleryProgressPcs
          /\ UNCHANGED <<err, pc>>
    /\ UNCHANGED <<dbVars, fsVars, argVars, audio_path, duration, num_chunks, i,
                   transcriptions, raw_transcript, result, raised, deliveries,
                   extracted, calls, logVars>>

\* tasks.py:36  task_time_limit=3600: a task still running 300 s after the soft
\* limit is stopped by killing the process that runs it; no code of the task
\* runs any more.
HardTimeLimit(j) ==
    /\ UNCHANGED <<keyVars, cbVars>>
    /\ mode[j] = "celery"
    /\ Running(j)
    /\ SoftFired(j)
    /\ pc' = [pc EXCEPT ![j] = "killed"]
    /\ UNCHANGED <<dbVars, fsVars, argVars, locVars, histVars, logVars>>

Service(j) ==
    \/ Transcribe(j)
    \/ GeminiUpload(j)
    \/ GeminiGenerate(j)
    \/ GeminiDelete(j)
    \/ OpenAISize(j)
    \/ OpenAIWhisper(j)
    \/ OpenAIEnhance(j)
    \/ ChunkedProbe(j)
    \/ ChunkedMkdtemp(j)
    \/ ChunkedExtract(j)
    \/ ChunkedWhisper(j)
    \/ ChunkedRemove(j)
    \/ ChunkedReturn(j)
    \/ ChunkedFinally(j)

ThreadRunner(j) ==
    \/ ThreadEmitStart(j)
    \/ ThreadExtract(j)
    \/ ThreadEmitTranscribing(j)
    \/ ThreadWrite(j)
    \/ ThreadEmitCompleted(j)
    \/ ThreadRemoveSource(j)
    \/ ThreadRemoveAudio(j)
    \/ ThreadHandler(j)

CeleryTask(j) ==
    \/ Deliver(j)
    \/ CeleryStart(j)
    \/ CeleryDecrypt(j)
    \/ CeleryProgress20(j)
    \/ CeleryExtract(j)
    \/ CeleryProgress30(j)
    \/ CeleryProgress40(j)
    \/ CeleryTranscribe(j)
    \/ CeleryHandler(j)
    \/ CeleryCleanup(j)

Next ==
    \E j \in SpecJobs :
        \/ \E p \in RequestProviders, m \in Modes, k \in KeyKinds : Upload(j, p, m, k)
        \/ CeleryTask(j)
        \/ ThreadRunner(j)
        \/ Service(j)
        \/ delete_transcription(j)
        \/ \E p \in RequestProviders : SaveKey(p) \/ DeleteKey(p)

Spec == Init /\ [][Next]_vars

\* Two uploads in flight: each request of app.py:342-397 gets its own uuid and
\* its own thread, and the threads interleave step by step.
PairStep(j) ==
    /\ \/ \E p \in Providers : Upload(j, p, "thread", "valid")
       \/ ThreadRunner(j)
       \/ Service(j)
       \/ \E p \in Providers : SaveKey(p)
    /\ Cardinality(faults'[j]) <= PairFaults
    /\ duration'[j] \in PairDurations \cup {0}
NextPair == \E j \in Jobs : PairStep(j)
PairSpec == Init /\ [][NextPair]_vars

\* The broker hands the message of job j, delivered before, to one more worker,
\* whose slot s is free: process_transcription (tasks.py:68-81) starts on its arguments without
\* looking at the row or at any other execution, and tasks.py:26-38 configures
\* neither late acknowledgement nor a lock, so nothing in the task keeps a
\* second execution for the same transcription_id from running beside the first.
Redeliver(s, j) ==
    /\ UNCHANGED logVars
    /\ UNCHANGED <<keyVars, cbVars>>
    /\ s # j
    /\ pc[s] = "new"
    /\ mode[j] = "celery"
    /\ deliveries[j] > 0
    /\ deliveries' = [deliveries EXCEPT ![s] = @ + 1]
    /\ transcription_id' = [transcription_id EXCEPT ![s] = transcription_id[j]]
    /\ mode' = [mode EXCEPT ![s] = "celery"]
    /\ provider' = [provider EXCEPT ![s] = provider[j]]
    /\ enc_key' = [enc_key EXCEPT ![s] = enc_key[j]]
    /\ pc' = [pc EXCEPT ![s] = "c_start"]
    /\ UNCHANGED <<dbVars, fsVars, locVars, raised, faults, extracted, calls>>

\* Jobs in flight on the Celery route, and deliveries of a job's message to
\* more than one worker.
WorkersStep(s) ==
    /\ \/ \E p \in Providers : Upload(s, p, "celery", "valid")
       \/ CeleryTask(s)
       \/ \E j \in Jobs : Redeliver(s, j)
       \/ \E p \in Providers : SaveKey(p)
    /\ Cardinality(faults'[s]) <= PairFaults
    /\ deliveries'[s] <= PairDeliveries
NextWorkers == \E s \in Jobs : WorkersStep(s)
WorkersSpec == Init /\ [][NextWorkers]_vars

\* The Celery task inside a transcribe_with_progress that calls the callback
\* (tasks.py:109-126), for a job that was uploaded and delivered once: the
\* events with progress 10 to 40 were published, the audio was extracted.
InitCallback ==
    /\ \E p \in Providers, n \in 0..FractionDen :
          /\ provider = [j \in Jobs |-> IF j \in SpecJobs THEN p ELSE None]
          /\ api_keys = {p}
          /\ cb_progress = [j \in Jobs |-> IF j \in SpecJobs THEN n ELSE 0]
    /\ exists = [j \in Jobs |-> j \in SpecJobs]
    /\ status = [j \in Jobs |-> IF j \in SpecJobs THEN "processing" ELSE None]
    /\ transcription_text = [j \in Jobs |-> None]
    /\ completed_at = [j \in Jobs |-> FALSE]
    /\ files = UNION {{VideoPath(j), AudioPathOf(j)} : j \in SpecJobs}
    /\ remote = [j \in Jobs |-> FALSE]
    /\ transcription_id = [j \in Jobs |-> IF j \in SpecJobs THEN j ELSE None]
    /\ mode = [j \in Jobs |-> IF j \in SpecJobs THEN "celery" ELSE None]
    /\ enc_key = [j \in Jobs |-> IF j \in SpecJobs THEN "valid" ELSE None]
    /\ pc = [j \in Jobs |-> IF j \in SpecJobs THEN "c_callback" ELSE "new"]
    /\ audio_path = [j \in Jobs |-> IF j \in SpecJobs THEN AudioPathOf(j) ELSE None]
    /\ err = [j \in Jobs |-> None]
    /\ duration = [j \in Jobs |-> 0]
    /\ num_chunks = [j \in Jobs |-> 0]
    /\ i = [j \in Jobs |-> 0]
    /\ transcriptions = [j \in Jobs |-> <<>>]
    /\ raw_transcript = [j \in Jobs |-> None]
    /\ result = [j \in Jobs |-> None]
    /\ raised = [j \in Jobs |-> FALSE]
    /\ faults = [j \in Jobs |-> {}]
    /\ deliveries = [j \in Jobs |-> IF j \in SpecJobs THEN 1 ELSE 0]
    /\ extracted = [j \in Jobs |-> <<>>]
    /\ calls = [j \in Jobs |-> <<>>]
    /\ published = [j \in Jobs |->
                      IF j \in SpecJobs THEN <<ProgressEvent("processing", 40)>> ELSE <<>>]
    /\ finishes = [j \in Jobs |-> <<>>]
NextCallback == \E j \in SpecJobs : ProgressCallback(j)
CallbackSpec == InitCallback /\ [][NextCallback]_vars

\* A runner that is alive takes its next step: the thread and the worker are
\* scheduled, and every collaborator call returns or raises. Nothing obliges an
\* upload, a delivery, a deletion or a death to happen.
RunnerStep(j) ==
    \/ CeleryStart(j) \/ CeleryDecrypt(j) \/ CeleryProgress20(j) \/ CeleryExtract(j)
    \/ CeleryProgress30(j) \/ CeleryProgress40(j) \/ CeleryTranscribe(j)
    \/ CeleryHandler(j) \/ CeleryCleanup(j)
    \/ ThreadRunner(j)
    \/ Service(j)
\* The program in a process that may die.
NextOrDie ==
    \/ Next
    \/ \E j \in SpecJobs : Die(j) \/ SoftTimeLimit(j) \/ HardTimeLimit(j)
FairSpec ==
    Init /\ [][NextOrDie]_vars /\ \A j \in SpecJobs : WF_vars(RunnerStep(j))
\* =================================================================== claims
Terminal == {"completed", "failed"}
ChunkedPcs == {"k_probe", "k_mkdtemp", "k_extract", "k_whisper", "k_remove", "k_return", "k_rmdir"}
\* The run of job j went through _transcribe_openai_chunked's loop set-up.
WasChunked(j) == num_chunks[j] > 0
\* Failures of the stages of the pipeline: decryption, audio extraction, the
\* duration probe, the chunk split, a provider call.
StageFaults ==
    {"decrypt@c_decrypt", "extract@c_extract", "extract@t_extract", "probe@k_probe",
     "extract@k_extract", "provider@g_upload", "provider@g_generate",
     "provider@g_delete", "provider@o_whisper", "provider@k_whisper"}
StageRaised(j) == err[j] = NoMethodText \/ faults[j] \cap StageFaults # {}
RemoveFaults ==
    {"remove@c_cleanup", "remove@t_rm_src", "remove@t_rm_audio", "remove@k_remove",
     "remove@k_rmdir"}

\* C1: a finished first run of the Celery task in which the key decrypts, every
\* collaborator succeeds and the row exists leaves the row completed, with its
\* completion time set and the provider's transcript as its text.
C1_CeleryCleanRunCompletes ==
    \A j \in Jobs :
        (/\ mode[j] = "celery" /\ pc[j] = "done" /\ deliveries[j] = 1
         /\ enc_key[j] = "valid" /\ faults[j] = {} /\ exists[j])
        => (/\ status[j] = "completed"
            /\ completed_at[j]
            /\ transcription_text[j] = WholeTranscript)

\* C2: a finished run in which a stage raised while the row exists leaves the
\* row failed with the text 'Error: ' + str(error), and the runner did not raise
\* (Celery task and thread runner).
C2_StageFailureEndsFailed ==
    \A j \in Jobs :
        (pc[j] = "done" /\ StageRaised(j) /\ exists[j])
        => (/\ status[j] = "failed"
            /\ transcription_text[j] = ErrorText(err[j])
            /\ ~raised[j])

\* C3: no step taken while the row of a job is completed or failed changes the
\* status of that row (the deletion of the row aside).
C3_TerminalStatusNeverChanges ==
    [][\A j \in Jobs :
          (status[j] \in Terminal /\ exists'[j]) => status'[j] = status[j]]_vars

\* C4: after a run of the Celery task has finished (its file removals having
\* succeeded), neither the source file nor the audio file of the job exists.
C4_CeleryRunLeavesNoFiles ==
    \A j \in Jobs :
        (mode[j] = "celery" /\ pc[j] = "done" /\ faults[j] \cap RemoveFaults = {})
        => (VideoPath(j) \notin files /\ AudioPathOf(j) \notin files)

\* C5: after a run of the thread runner has finished (no file removal having
\* failed), neither the source file nor the audio file of the job exists.
C5_ThreadRunLeavesNoFiles ==
    \A j \in Jobs :
        (mode[j] = "thread" /\ pc[j] = "done" /\ faults[j] \cap RemoveFaults = {})
        => (VideoPath(j) \notin files /\ AudioPathOf(j) \notin files)

\* C6: no chunk file is left when the next chunk is cut, and once
\* _transcribe_openai_chunked has returned or raised (no file removal having
\* failed) no chunk file and no chunk directory of the run is left.
C6_NoChunkLeftBehind ==
    \A j \in Jobs :
        /\ pc[j] = "k_extract" => ChunkFiles(j) = {}
        /\ (WasChunked(j) /\ pc[j] \notin ChunkedPcs /\ faults[j] \cap RemoveFaults = {})
           => (ChunkFiles(j) = {} /\ TempDir(j) \notin files)

CeilDiv(a, b) == (a + b - 1) \div b
ExpectedChunks(d) == IF d > chunk_duration THEN CeilDiv(d, chunk_duration) ELSE 1

\* C7: when the loop of _transcribe_openai_chunked has run to its end, the
\* chunks it cut and the chunks it sent number ceil(D/M) for D > M, else 1.
C7_ChunkCountIsCeiling ==
    \A j \in Jobs :
        pc[j] = "k_return"
        => (/\ Len(extracted[j]) = ExpectedChunks(duration[j])
            /\ Len(calls[j]) = ExpectedChunks(duration[j]))
\* The time ranges requested so far start at 0 and each starts where the one
\* before it ends.
RequestsContiguous(r) ==
    \A k \in 1..Len(r) : r[k].start = (IF k = 1 THEN 0 ELSE r[k-1].start + r[k-1].t)

\* C8 (as stated): when the loop has run to its end the requested ranges start at
\* 0, are contiguous, none extends past D, and the last one ends at D.
C8_RangesCoverExactly ==
    \A j \in Jobs :
        pc[j] = "k_return"
        => LET r == extracted[j]
           IN  /\ RequestsContiguous(r)
               /\ \A k \in 1..Len(r) : r[k].start + r[k].t <= duration[j]
               /\ r[Len(r)].start + r[Len(r)].t = duration[j]

\* C8 (amended): the requested ranges start at 0, are contiguous, each asks for
\* exactly chunk_duration seconds and starts at or before D; when the loop has
\* run to its end they cover [0, D) and the last one, not truncated, ends past D.
C8_RequestsContiguousUntruncated ==
    \A j \in Jobs :
        LET r == extracted[j]
        IN  /\ RequestsContiguous(r)
            /\ \A k \in 1..Len(r) : r[k].t = chunk_duration /\ r[k].start <= duration[j]
            /\ pc[j] = "k_return"
               => (Len(r) >= 1 /\ r[Len(r)].start + r[Len(r)].t > duration[j])

C8_Witness ==
    \E j \in Jobs : pc[j] = "k_return" /\ Len(extracted[j]) >= 3

\* The run of job j made a chunk directory, cut a chunk or left a chunk file.
Split(j) ==
    WasChunked(j) \/ extracted[j] # <<>> \/ TempDir(j) \in files \/ ChunkFiles(j) # {}

ChunkTranscripts(n) == [k \in 1..n |-> ChunkTranscript(k - 1)]
\* n texts joined by single spaces, written out for the chunk counts of the model.
SpaceJoined(t) ==
    IF Len(t) = 0 THEN ""
    ELSE IF Len(t) = 1 THEN t[1]
    ELSE IF Len(t) = 2 THEN t[1] \o " " \o t[2]
    ELSE IF Len(t) = 3 THEN t[1] \o " " \o t[2] \o " " \o t[3]
    ELSE IF Len(t) = 4 THEN t[1] \o " " \o t[2] \o " " \o t[3] \o " " \o t[4]
    ELSE t[1] \o " " \o t[2] \o " " \o t[3] \o " " \o t[4] \o " " \o t[5]

\* C10 (as stated): the final text of a completed job whose audio was split into
\* N chunks is the N chunk transcripts joined by single spaces in chunk order.
C10_FinalTextIsJoin ==
    \A j \in Jobs :
        (WasChunked(j) /\ status[j] = "completed")
        => transcription_text[j] = SpaceJoined(ChunkTranscripts(num_chunks[j]))

\* C10 (amended): the chunks are sent one at a time in index order, the raw
\* transcript is the N chunk transcripts joined by single spaces in chunk order,
\* and the final text of a completed job is the enhancement of that raw
\* transcript, or the raw transcript itself when the enhancement call failed.
C10_JoinedThenEnhanced ==
    \A j \in Jobs :
        WasChunked(j)
        => LET joined == SpaceJoined(ChunkTranscripts(num_chunks[j]))
           IN  /\ \A k \in 1..Len(calls[j]) : calls[j][k] = ChunkPath(j, k - 1)
               /\ Cardinality(ChunkFiles(j)) <= 1
               /\ raw_transcript[j] # None
                  => (Len(calls[j]) = num_chunks[j] /\ raw_transcript[j] = joined)
               /\ status[j] = "completed"
                  => transcription_text[j] =
                        (IF "enhance@o_enhance" \in faults[j] THEN joined ELSE Enhanced(joined))

C10_Witness ==
    \E j \in Jobs :
        /\ status[j] = "completed" /\ num_chunks[j] = 3
        /\ transcription_text[j] = Enhanced("part0 part1 part2")
\* The last event published for job j.
LastPublished(j) == published[j][Len(published[j])]

\* C11: while the row of a job stays 'processing', a 'processing' event the
\* Celery task publishes never carries a progress below that of the
\* 'processing' event published before it.
C11_ProgressNeverLowered ==
    [][\A j \in Jobs :
          (/\ mode[j] = "celery"
           /\ status[j] = "processing" /\ status'[j] = "processing"
           /\ published[j] # <<>>
           /\ LastPublished(j).status = "processing"
           /\ Len(published'[j]) = Len(published[j]) + 1
           /\ LastPublished(j)'.status = "processing")
          => LastPublished(j)'.progress >= LastPublished(j).progress]_vars

\* C12: every committed write of a terminal status for a job after the first
\* one writes what the first one wrote: the status and the text of the row are
\* as the first finish set them.
C12_SecondFinishIsNoOp ==
    \A j \in Jobs :
        \A k \in 1..Len(finishes[j]) : finishes[j][k] = finishes[j][1]

\* C13: the completion time of a row is set exactly when its status is
\* completed or failed.
C13_CompletedAtIffTerminal ==
    \A j \in Jobs :
        exists[j] => (completed_at[j] <=> status[j] \in Terminal)

\* str() of every exception the runners can catch.
ErrorMessages ==
    {InvalidTokenText, ExtractErrorText, NoMethodText, EmitErrorText, DbErrorText,
     RemoveErrorText, NoRowText, GeminiErrorText(ProviderErrorText)}
    \cup {OpenAIErrorText(m) :
             m \in {ProviderErrorText, ProbeErrorText, ChunkExtractErrorText,
                    RemoveErrorText} \cup {RmdirErrorText(j) : j \in Jobs}}
\* The texts that carry the prefix 'Error: '.
PrefixedErrors == {"Error: " \o m : m \in ErrorMessages}

\* C14: a completed row holds the transcript the service returned, which is no
\* 'Error: '-prefixed text; a failed row holds an 'Error: '-prefixed error
\* description, which is no transcript.
C14_TextMatchesTerminalStatus ==
    \A j \in Jobs :
        /\ (exists[j] /\ status[j] = "completed")
           => (/\ transcription_text[j] = result[j]
               /\ raw_transcript[j] # None
               /\ transcription_text[j] \in {raw_transcript[j], Enhanced(raw_transcript[j])}
               /\ transcription_text[j] \notin PrefixedErrors)
        /\ (exists[j] /\ status[j] = "failed")
           => (/\ transcription_text[j] \in PrefixedErrors
               /\ transcription_text[j] \notin
                     {WholeTranscript, Enhanced(WholeTranscript), raw_transcript[j],
                      Enhanced(raw_transcript[j]), result[j]})

\* A row that was completed with its transcript and then failed: the error text
\* took the place of the transcript.
C14_Witness ==
    \E j \in Jobs :
        /\ exists[j] /\ status[j] = "failed" /\ Len(finishes[j]) = 2
        /\ finishes[j][1] = Finish("completed", result[j])
        /\ transcription_text[j] = ErrorText(err[j])

\* C15: a finished run of the thread runner whose only failures were failures
\* to delete a file or a directory, the row existing, leaves the row completed
\* with the transcript as its text.
C15_CleanupFailureKeepsOutcome ==
    \A j \in Jobs :
        (/\ mode[j] = "thread" /\ pc[j] = "done" /\ exists[j]
         /\ faults[j] # {} /\ faults[j] \subseteq RemoveFaults)
        => (/\ status[j] = "completed"
            /\ result[j] # None
            /\ transcription_text[j] = result[j])

EmitFaults ==
    {"emit@c_start", "emit@c_up20", "emit@c_up30", "emit@c_up40", "emit@c_handler",
     "emit@t_emit1", "emit@t_emit2", "emit@t_emit3", "emit@t_handler"}

\* C16: a finished first run whose only failures were raising publishes, the
\* row existing, leaves the row as the run without them leaves it: completed
\* with the transcript (thread runner), failed with the error of the task
\* (Celery task); and the runner did not raise.
C16_PublishFailureKeepsState ==
    \A j \in Jobs :
        (/\ pc[j] = "done" /\ exists[j] /\ deliveries[j] <= 1
         /\ faults[j] # {} /\ faults[j] \subseteq EmitFaults)
        => (/\ ~raised[j]
            /\ IF mode[j] = "thread"
                 THEN /\ status[j] = "completed"
                      /\ result[j] # None
                      /\ transcription_text[j] = result[j]
                 ELSE /\ status[j] = "failed"
                      /\ transcription_text[j] = ErrorText(NoMethodText))

\* C17: a Celery task handed an empty encrypted key never gets past the
\* decryption: extract_audio is not called, audio_path stays unassigned and no
\* audio file is created.
C17_NoCredentialNoExtraction ==
    \A j \in Jobs :
        (mode[j] = "celery" /\ enc_key[j] = "empty")
        => (/\ pc[j] \notin {"c_up20", "c_extract", "c_up30", "c_up40", "c_transcribe"}
            /\ audio_path[j] = None
            /\ AudioPathOf(j) \notin files)

\* C18: a finished run that met no failure of a collaborator and whose row is
\* gone did not raise and left neither the source file nor the audio file.
C18_DeletedRowRunEndsQuietly ==
    \A j \in Jobs :
        (pc[j] = "done" /\ ~exists[j] /\ faults[j] = {})
        => (/\ ~raised[j]
            /\ VideoPath(j) \notin files
            /\ AudioPathOf(j) \notin files)

\* C19: when the enhancement call has failed, _transcribe_openai returns the raw
\* transcript and raises nothing (the runner goes on to write the result); and
\* a finished run whose only failure was that call, the row existing, leaves
\* the row completed with the raw transcript as its text.
C19_EnhanceFailureKeepsRaw ==
    \A j \in Jobs :
        "enhance@o_enhance" \in faults[j]
        => (/\ raw_transcript[j] # None
            /\ result[j] = raw_transcript[j]
            /\ faults[j] = {"enhance@o_enhance"}
               => (/\ pc[j] \in {"t_write", "t_emit3", "t_rm_src", "t_rm_audio", "done",
                                  "dead"}
                      \/ (pc[j] = "t_handler" /\ ~exists[j])
                   /\ err[j] \in {None, NoRowText}
                   /\ (pc[j] = "done" /\ exists[j])
                      => (/\ status[j] = "completed"
                          /\ transcription_text[j] = raw_transcript[j])))

C19_Witness ==
    \E j \in Jobs :
        /\ pc[j] = "done" /\ status[j] = "completed"
        /\ "enhance@o_enhance" \in faults[j]
        /\ transcription_text[j] = WholeTranscript

\* C20: a job that a runner was started for, or whose task was delivered n
\* times, eventually has a completed or failed row (or no row), or its task is
\* delivered once more.
C20_EveryJobEndsOrIsRedelivered ==
    \A j \in SpecJobs : \A n \in 0..MaxDeliveries :
        (pc[j] \notin {"new", "queued"} /\ deliveries[j] = n)
        ~> (~exists[j] \/ status[j] \in Terminal \/ deliveries[j] > n)

\* C21: when a step makes the status of a row completed or failed for the first
\* time, neither the source file nor the audio file of the job exists any more.
C21_FilesGoneBeforeTerminal ==
    [][\A j \in Jobs :
          (finishes[j] = <<>> /\ exists'[j] /\ status[j] \notin Terminal
           /\ status'[j] \in Terminal)
          => (VideoPath(j) \notin files' /\ AudioPathOf(j) \notin files')]_vars

\* The place of a status on the path queued -> processing -> completed | failed
\* ('pending' is the column's default, models.py:55).
StatusRank(st) ==
    IF st \in {"queued", "pending"} THEN 0 ELSE IF st = "processing" THEN 1 ELSE 2

\* C22: a row is created queued; it is processing only once a runner has begun
\* to work on the job; and no step moves its status backwards or from one
\* terminal status to the other.
C22_StatusMovesForwardFromQueued ==
    [][\A j \in Jobs :
          /\ (~exists[j] /\ exists'[j]) => StatusRank(status'[j]) = 0
          /\ (exists'[j] /\ status'[j] = "processing") => pc'[j] \notin {"new", "queued"}
          /\ (exists[j] /\ exists'[j])
             => (/\ StatusRank(status'[j]) >= StatusRank(status[j])
                 /\ status[j] \in Terminal => status'[j] = status[j])]_vars

\* C29: once _transcribe_gemini has returned or raised (its delete_file call, if
\* made, not having failed), the file it uploaded to the provider is deleted.
C29_GeminiRemoteFileDeleted ==
    \A j \in Jobs :
        (pc[j] \notin {"g_generate", "g_delete"} /\ "provider@g_delete" \notin faults[j])
        => ~remote[j]

\* C28: whatever keys were saved and deleted, a step that creates a row creates
\* it for a provider the user has a key for; every row has a provider in
\* {gemini, openai}; and transcribe never raises its unknown-provider error.
C28_CreatedJobsHaveKnownProvider ==
    [][\A j \in Jobs :
          /\ (~exists[j] /\ exists'[j])
             => (provider'[j] \in api_keys /\ provider'[j] \in {"gemini", "openai"})
          /\ pc'[j] # "new" => provider'[j] \in {"gemini", "openai"}
          /\ \A p \in RequestProviders : err'[j] # "Unknown provider: " \o p]_vars

\* A job was created for a provider whose key was deleted afterwards, and its
\* run got past the dispatch on the provider.
C28_Witness ==
    \E j \in Jobs :
        /\ exists[j] /\ provider[j] = "openai" /\ api_keys = {"gemini"}
        /\ pc[j] = "o_size"

\* C24: a Celery run that was stopped at the hard time limit leaves the row of
\* its job, if there is one, failed with the time-limit error as its text.
C24_TimeLimitEndsFailed ==
    \A j \in Jobs :
        (pc[j] = "killed" /\ exists[j])
        => (/\ status[j] = "failed"
            /\ transcription_text[j] = "Error: " \o SoftTimeLimitText)

\* C26: the progress published for a call of the callback with the fraction
\* p = n / FractionDen lies in 40..90, is at least the progress of every
\* smaller fraction, is 40 for p = 0 and is 90 for p = 1.
C26_CallbackScalesInto40To90 ==
    [][\A j \in Jobs :
          (pc[j] = "c_callback" /\ Len(published'[j]) = Len(published[j]) + 1)
          => LET recorded == LastPublished(j)'.progress
                 n == cb_progress[j]
             IN  /\ recorded \in 40..90
                 /\ \A m \in 0..n : callback_progress(m, FractionDen) <= recorded
                 /\ n = 0 => recorded = 40
                 /\ n = FractionDen => recorded = 90]_vars

\* C27: for a job run by the Celery task, an event is added to the published
\* log only at its end and only with the status that the same step has
\* committed to the existing row, and no event with status processing is
\* published after an event with status completed or failed.
C27_EventsFollowCommitsInOrder ==
    [][\A j \in Jobs :
          (mode[j] = "celery" /\ Len(published'[j]) = Len(published[j]) + 1)
          => /\ SubSeq(published'[j], 1, Len(published[j])) = published[j]
             /\ exists'[j]
             /\ status'[j] = LastPublished(j)'.status
             /\ (published[j] # <<>> /\ LastPublished(j).status \in Terminal)
                    => LastPublished(j)'.status # "processing"]_vars

\* The chunk indexes a run can reach, and every path a run of job j can create.
ChunkIndexes == UNION {0..(d \div chunk_duration) : d \in Durations}
ChunkPaths(j) == {ChunkPath(j, n) : n \in ChunkIndexes}
PathsOf(j) == {VideoPath(j), AudioPathOf(j), TempDir(j)} \cup ChunkPaths(j)
\* The paths under the upload folder whose name starts with the job's id.
CreatedNames == {"video.mp4", "video_audio.mp3"}
                  \cup {"chunk_" \o ToString(n) \o ".mp3" : n \in ChunkIndexes}
ScratchNamespace(j) == {"uploads/" \o j \o "_" \o name : name \in CreatedNames}
TempDirs == {TempDir(j) : j \in Jobs}

\* C25 as stated: every file a run creates, chunk files included, is under
\* the upload folder with a name that starts with its job's id, no path belongs
\* to two jobs, and a job's audio path is not its source path.
C25_EveryFileInScratchNamespace ==
    /\ \A f \in files \ TempDirs : \E j \in Jobs : f \in ScratchNamespace(j)
    /\ \A f \in files : Cardinality({j \in Jobs : f \in PathsOf(j)}) = 1
    /\ \A j \in Jobs : audio_path[j] # None => audio_path[j] # VideoPath(j)

\* C25 (amended): the saved source file and the audio file are under the upload
\* folder with a name that starts with the job's id; the chunk files are in the
\* run's own temporary directory, outside the upload folder; every path that
\* exists belongs to exactly one job, and a job's audio path is not its source
\* path.
C25_SourceAndAudioNamespaced ==
    /\ \A f \in files :
          /\ Cardinality({j \in Jobs : f \in PathsOf(j)}) = 1
          /\ \A j \in Jobs :
                /\ f \in {VideoPath(j), AudioPathOf(j)} => f \in ScratchNamespace(j)
                /\ f \in ChunkPaths(j) \cup {TempDir(j)}
                      => \A k \in Jobs : f \notin ScratchNamespace(k)
    /\ \A j \in Jobs :
          audio_path[j] # None
              => audio_path[j] = AudioPathOf(j) /\ audio_path[j] # VideoPath(j)

C25_Witness ==
    /\ \E n \in ChunkIndexes : ChunkPath("j1", n) \in files
    /\ {VideoPath("j1"), AudioPathOf("j1"), VideoPath("j2"), AudioPathOf("j2")} \subseteq files

\* C23: at no time are two executions of the runner active for the same job
\* id, and a step of an execution changes the status, the text and the files
\* of no job but its own.
C23_OneExecutionPerJobOwnRecordOnly ==
    [][/\ \A s1 \in Jobs, s2 \in Jobs :
             (s1 # s2 /\ Running(s1)' /\ Running(s2)')
                 => transcription_id'[s1] # transcription_id'[s2]
       /\ \A s \in Jobs :
             pc'[s] # pc[s]
             => \A b \in Jobs \ {transcription_id'[s]} :
                   /\ status'[b] = status[b]
                   /\ transcription_text'[b] = transcription_text[b]
                   /\ files' \cap PathsOf(b) = files \cap PathsOf(b)]_vars

=============================================================================
